---- MODULE Spec2Model ----
(***************************************************************************)
(* 3D printing analytics: the MongoDB Resource API and Auth Gate           *)
(* (src/server/server-mongodb.js) and the Client State Mirror with its     *)
(* Reconciliation Loop (src/client/js/app-fixed.js).                       *)
(*                                                                         *)
(* Conventions of the model                                                *)
(*  - Time is one clock `now`.  Every request that stamps a document and   *)
(*    every client action that draws Date.now() advances it, so stamps     *)
(*    and time-based ids are distinct.  TokenLifetime is the token's       *)
(*    '1h' measured in ticks of this clock.                                *)
(*  - A document's identity is one integer `id`: ids 1..MaxOid are the     *)
(*    store-generated ones (_id), ClientIdBase + now the client's          *)
(*    Date.now() ones, NoId stands for null/undefined.  A lookup by an id  *)
(*    the store did not generate finds nothing.                            *)
(*  - A user action of the client is one step; a sweep is one step per     *)
(*    request, so user actions interleave with it.                         *)
(*  - A token is what jwt.verify reads of it: whether it was signed with   *)
(*    JWT_SECRET, and its iat/exp claims.                                  *)
(*  - Requests are the ones the rate limiters admit.                       *)
(***************************************************************************)
EXTENDS Integers, Sequences, FiniteSets, TLC

\* ---------------------------------------------------------------- bounds
MaxTime == 3
MaxOid == 2
MaxLogins == 1
MaxPage == 4
MaxLimit == 10
MaxAuthLog == 3

\* ------------------------------------------------------ program constants
TokenLifetime == 2
DefaultPage == 1
DefaultLimit == 100
ClientIdBase == 100
NoId == 0

\* ------------------------------------------------------------ Job bodies
Locations == {"bng", "sampling", "rcc", "rd", "kaa", "bom", "other"}

RecordStatuses == {"pending", "in-progress", "completed", "cancelled"}

Quantities(b, o) == [l \in Locations |-> IF l = "bng" THEN b ELSE IF l = "other" THEN o ELSE 0]

JobBody(name, q, tq, spp, ts, st) ==
    [projectName |-> name, quantities |-> q, totalQuantity |-> tq,
     savingsPerProduct |-> spp, totalSavings |-> ts, status |-> st]

\* The request bodies a form or any HTTP client may submit.
JobBodies ==
    { JobBody("Widget A", Quantities(2, 3), 5, 2, 10, "pending"),
      JobBody("Widget A", Quantities(2, 3), 4, 2, 8, "completed"),
      JobBody("Widget A", Quantities(1, 0), 1, 2, 7, "pending"),
      JobBody("Widget A", Quantities(0, 0), 0, 2, 0, "pending"),
      JobBody("", Quantities(1, 0), 1, 2, 2, "bogus"),
      JobBody("Widget A", Quantities(-1, 2), 1, 2, 2, "pending"),
      JobBody("R&D ", Quantities(1, 0), 1, 2, 2, "pending") }

RECURSIVE SumOver(_, _)
SumOver(q, S) ==
    IF S = {} THEN 0
    ELSE LET l == CHOOSE x \in S : TRUE IN q[l] + SumOver(q, S \ {l})

SumQuantities(q) == SumOver(q, Locations)

\* A JSON number: the integer n, or n + 1/2.
Whole(n) == [whole |-> TRUE, n |-> n]
Fractional(n) == [whole |-> FALSE, n |-> n]

FeedbackBody(r, c) == [rating |-> r, category |-> c]
FeedbackBodies ==
    { FeedbackBody(Whole(4), "general"), FeedbackBody(Whole(6), "general"),
      FeedbackBody(Whole(0), "general"), FeedbackBody(Fractional(4), "general") }
FeedbackCategories == {"general", "technical", "complaint", "suggestion", "bug-report"}

ProjectBody(t, p) == [title |-> t, priority |-> p]
ProjectBodies == { ProjectBody("Jig", "high"), ProjectBody("Jig", "urgent") }
ProjectPriorities == {"low", "medium", "high", "critical"}

\* ----------------------------------------------------------------- tokens
NoToken == [present |-> FALSE, signed |-> FALSE, iat |-> 0, exp |-> 0]
ForgedToken == [present |-> TRUE, signed |-> FALSE, iat |-> 0, exp |-> MaxTime + TokenLifetime + 1]
AdminPassword == "secret"
Passwords == {"secret", "guess", ""}
\* A password that is not a string: bcrypt.compare throws on it.
NotAString == "{}"

\* --------------------------------------------------------------- settings
SettingKeys == {"investment", "projectIdCounter"}
DefaultInvestment == 600000
SettingsBodies ==
    { [k \in {"investment"} |-> 700000],
      [k \in {"projectIdCounter"} |-> 2],
      [k \in SettingKeys |-> IF k = "investment" THEN 600000 ELSE 1] }
NoSettings == [k \in {} |-> 0]

\* The data directory before anything was saved: it does not exist.
NoDataDir == [exists |-> FALSE, files |-> {}]

VARIABLES
    now,        \* Date.now()
    db,         \* the MongoDB collections: Record, Feedback, Project, Settings
    oidCounter, \* number of ObjectIds generated
    issued,     \* tokens issued by /api/auth/login
    lastReq,    \* the last request of an HTTP client other than the app, if any
    lastRes,    \* its response
    authLog,    \* the AuthLog collection, as the audited logins record it;
                \* data/auth_log.json for the flat-file server
    dataDir,    \* the data directory of the flat-file server
    app,        \* the fields of the PrintingAnalyticsApp instance
    localStorage, \* the blob stored under STORAGE_KEY
    sync,       \* the running syncWithServer: its position, the Jobs left, its calls
    overlap,    \* a syncWithServer started while that one was running
    lastAction  \* the last user action of the client: what it did and said

srvVars == <<now, db, oidCounter, issued, lastReq, lastRes, authLog, dataDir>>

cliVars == <<app, localStorage, sync, overlap, lastAction>>

\* ------------------------------------------------------------- responses
Pagination(p, l, t, n) == [page |-> p, limit |-> l, total |-> t, pages |-> n]
NoPagination == Pagination(0, 0, 0, 0)

Response(st, err, data, pg, tok) ==
    [status |-> st, error |-> err, message |-> "", data |-> data, pagination |-> pg,
     token |-> tok]

Status(st, err) == Response(st, err, <<>>, NoPagination, NoToken)

\* process.env.NODE_ENV of the deployment.
NODE_ENV == "production"

\* The catch of a handler: res.status(500).json({success: false, error,
\* message: error.message}).
Failure(err, errorMessage) == [Status(500, err) EXCEPT !.message = errorMessage]

\* The error handling middleware, for an error passed to next().
errorMiddleware(errMessage) ==
    [Status(500, "Internal server error") EXCEPT
        !.message = IF NODE_ENV = "development" THEN errMessage ELSE "Something went wrong"]

\* What a handler hands back: the response and the collections afterwards.
Outcome(res, d) == [res |-> res, db |-> d]

\* ---------------------------------------------------------- Auth Gate
jwtSign(t) == [present |-> TRUE, signed |-> TRUE, iat |-> t, exp |-> t + TokenLifetime]

\* jwt.verify with ignoreExpiration.
jwtVerify_IgnoreExpiration(token, t) == token.signed

jwtVerify(token, t) == token.signed /\ t < token.exp

\* jwt.decode in place of jwt.verify: the signature is not checked.
authenticateToken_Decode(token, t) ==
    IF ~token.present THEN FALSE ELSE t < token.exp

\* authenticateToken: TRUE when next() is called, FALSE when it answers 401.
authenticateToken(token, t) ==
    IF ~token.present THEN FALSE ELSE jwtVerify(token, t)

Unauthorized(token) ==
    IF ~token.present THEN Status(401, "Access token required")
    ELSE Status(401, "Invalid or expired token")

bcryptCompare(password) == password = AdminPassword

AuthLogin(password, t) ==
    IF password = "" THEN Status(400, "Password is required")
    ELSE IF password = NotAString
         THEN Failure("Authentication failed", "Illegal arguments: object, string")
    ELSE IF bcryptCompare(password)
         THEN Response(200, "", <<>>, NoPagination, jwtSign(t))
         ELSE Status(401, "Invalid credentials")

\* logAuthAttempt(req, 'login', success): the entry is appended when
\* authLog.save() resolves; when it rejects, the catch only logs to the console.
logAuthAttempt(log, success, saved) ==
    IF saved THEN Append(log, [action |-> "login", success |-> success]) ELSE log

AuthVerify(token, t) ==
    IF ~authenticateToken(token, t) THEN Unauthorized(token)
    ELSE Status(200, "")

\* ------------------------------------------------------------ validation
\* The sanitizers of the validation chains, on the strings bodies carry:
\* trim() strips the white space at both ends, escape() replaces & < > " ' /
\* by HTML entities.
trim(str) == IF str = "R&D " THEN "R&D" ELSE str

escape(str) == IF str = "R&D" THEN "R&amp;D" ELSE str

\* req.body after the chain of validateRecord has run: what the handler reads.
sanitizeRecord(body) == [body EXCEPT !.projectName = escape(trim(@))]

validateRecord(body) ==
    /\ trim(body.projectName) # ""
    /\ body.totalQuantity >= 1
    /\ body.status \in RecordStatuses

\* The Mongoose schema validators that save() and runValidators apply.
recordSchema(body) ==
    /\ \A l \in Locations : body.quantities[l] >= 0
    /\ body.totalQuantity >= 1
    /\ body.status \in RecordStatuses

\* isInt({min, max})
isInt(v, min, max) == v.whole /\ v.n >= min /\ v.n <= max

\* The chain without body('rating').isInt({min: 1, max: 5}).
validateFeedback_NoRating(body) == body.category \in FeedbackCategories

validateFeedback(body) ==
    /\ isInt(body.rating, 1, 5)
    /\ body.category \in FeedbackCategories

\* The validators of feedbackSchema that save() applies: rating is a Number
\* with min 1 and max 5.
feedbackSchema(body) ==
    /\ body.rating.n >= 1
    /\ (IF body.rating.whole THEN body.rating.n <= 5 ELSE body.rating.n < 5)
    /\ body.category \in FeedbackCategories

validateProject(body) ==
    /\ body.title # ""
    /\ body.priority \in ProjectPriorities

\* ------------------------------------------------------------- documents
Doc(id, body, c, u) == [id |-> id, body |-> body, createdAt |-> c, updatedAt |-> u]

\* A request body that also carries a createdAt, as any HTTP client may send.
WithCreatedAt(body, c) ==
    [k \in DOMAIN body \cup {"createdAt"} |-> IF k = "createdAt" THEN c ELSE body[k]]

\* The fields of a body other than the timestamps of the schema.
Fields(body) == [k \in DOMAIN body \ {"createdAt"} |-> body[k]]

\* createdAt: { type: Date, default: Date.now } and the $set of an update:
\* the value of the body when it has one, else the default given.
createdAt(body, default) == IF "createdAt" \in DOMAIN body THEN body.createdAt ELSE default

Ids(coll) == { d.id : d \in coll }

findById(coll, id) == { d \in coll : d.id = id }

\* ------------------------------------------------------------------ List
RECURSIVE SortDocs(_, _)
SortDocs(coll, desc) ==
    IF coll = {} THEN <<>>
    ELSE LET first == CHOOSE d \in coll : \A e \in coll :
                          IF desc THEN d.createdAt >= e.createdAt
                                  ELSE d.createdAt <= e.createdAt
         IN <<first>> \o SortDocs(coll \ {first}, desc)

Min(a, b) == IF a <= b THEN a ELSE b

CeilDiv(a, b) == (a + b - 1) \div b

\* skip(page * limit): the first page is skipped.
Page_SkipOffByOne(sorted, page, limit) ==
    LET skip == page * limit
    IN SubSeq(sorted, skip + 1, Min(skip + limit, Len(sorted)))

\* find().sort().limit(limit * 1).skip((page - 1) * limit)
Page(sorted, page, limit) ==
    LET skip == (page - 1) * limit
    IN SubSeq(sorted, skip + 1, Min(skip + limit, Len(sorted)))

ListDocs(coll, page, limit, desc) ==
    Response(200, "", Page(SortDocs(coll, desc), page, limit),
             Pagination(page, limit, Cardinality(coll), CeilDiv(Cardinality(coll), limit)),
             NoToken)

GetRecords(d, page, limit, sortOrder) ==
    Outcome(ListDocs(d.Record, page, limit, sortOrder = "desc"), d)

GetFeedback(d, page, limit) == Outcome(ListDocs(d.Feedback, page, limit, TRUE), d)

GetProjects(d, page, limit) == Outcome(ListDocs(d.Project, page, limit, TRUE), d)

\* ------------------------------------------------- List, raw query string
\* A value of req.query as the handler's arithmetic reads it: a number, or
\* NaN for text that is not one.
Num(n) == [num |-> TRUE, n |-> n]
NaN == [num |-> FALSE, n |-> 0]

QueryValues == { Num(-1), Num(0), Num(1), Num(2), NaN }

Abs(n) == IF n < 0 THEN 0 - n ELSE n

\* The try block of a List handler on the values of req.query.  The handler
\* does not validate them: limit(limit * 1) and skip((page - 1) * limit) go
\* to the store, which rejects NaN and a negative skip (the catch answers
\* 500), reads limit 0 as no limit and a negative limit as its magnitude.
\* Math.ceil(total / limit) is then not a page count; null (0 here) when it
\* is not finite.
FindPage(coll, page, limit, desc, failed) ==
    IF ~page.num \/ ~limit.num
        THEN Failure(failed, "Failed to parse number 'NaN' in the query skip/limit")
    ELSE IF (page.n - 1) * limit.n < 0
        THEN Failure(failed, "Argument to $skip cannot be negative")
    ELSE IF limit.n > 0 THEN ListDocs(coll, page.n, limit.n, desc)
    ELSE IF limit.n = 0
         THEN Response(200, "", SortDocs(coll, desc),
                       Pagination(page.n, 0, Cardinality(coll), 0), NoToken)
    ELSE Response(200, "",
                  SubSeq(SortDocs(coll, desc), (page.n - 1) * limit.n + 1,
                         Min((page.n - 1) * limit.n + Abs(limit.n), Cardinality(coll))),
                  Pagination(page.n, limit.n, Cardinality(coll),
                             0 - (Cardinality(coll) \div Abs(limit.n))),
                  NoToken)

\* --------------------------------------------------------------- Records
PostRecords(d, token, body, t, oid) ==
    IF ~authenticateToken(token, t) THEN Outcome(Unauthorized(token), d)
    ELSE IF ~validateRecord(body) THEN Outcome(Status(400, "Validation failed"), d)
    ELSE IF ~recordSchema(body)
        THEN Outcome(Failure("Failed to create record", "Record validation failed"), d)
    ELSE LET saved == Doc(oid, Fields(sanitizeRecord(body)), createdAt(body, t), t)
         IN Outcome(Response(201, "", <<saved>>, NoPagination, NoToken),
                    [d EXCEPT !.Record = @ \cup {saved}])

\* An update with a version check: a document that was updated since its
\* creation is kept as the server has it.
PutRecords_KeepEdited(d, token, id, body, t) ==
    IF ~authenticateToken(token, t) THEN Outcome(Unauthorized(token), d)
    ELSE IF ~validateRecord(body) THEN Outcome(Status(400, "Validation failed"), d)
    ELSE IF ~recordSchema(body)
        THEN Outcome(Failure("Failed to update record", "Validation failed"), d)
    ELSE IF findById(d.Record, id) = {} THEN Outcome(Status(404, "Record not found"), d)
    ELSE LET old == CHOOSE x \in findById(d.Record, id) : TRUE
             new == IF old.updatedAt > old.createdAt THEN old
                    ELSE Doc(id, Fields(sanitizeRecord(body)),
                             createdAt(body, old.createdAt), t)
         IN Outcome(Response(200, "", <<new>>, NoPagination, NoToken),
                    [d EXCEPT !.Record = (@ \ {old}) \cup {new}])

PutRecords(d, token, id, body, t) ==
    IF ~authenticateToken(token, t) THEN Outcome(Unauthorized(token), d)
    ELSE IF ~validateRecord(body) THEN Outcome(Status(400, "Validation failed"), d)
    ELSE IF ~recordSchema(body)
        THEN Outcome(Failure("Failed to update record", "Validation failed"), d)
    ELSE IF findById(d.Record, id) = {} THEN Outcome(Status(404, "Record not found"), d)
    ELSE LET old == CHOOSE x \in findById(d.Record, id) : TRUE
             new == Doc(id, Fields(sanitizeRecord(body)), createdAt(body, old.createdAt), t)
         IN Outcome(Response(200, "", <<new>>, NoPagination, NoToken),
                    [d EXCEPT !.Record = (@ \ {old}) \cup {new}])

\* A delete that acknowledges whether or not the document was there.
DeleteRecords_NoNotFound(d, token, id, t) ==
    IF ~authenticateToken(token, t) THEN Outcome(Unauthorized(token), d)
    ELSE Outcome(Status(200, ""), [d EXCEPT !.Record = @ \ findById(@, id)])

DeleteRecords(d, token, id, t) ==
    IF ~authenticateToken(token, t) THEN Outcome(Unauthorized(token), d)
    ELSE IF findById(d.Record, id) = {} THEN Outcome(Status(404, "Record not found"), d)
    ELSE Outcome(Status(200, ""), [d EXCEPT !.Record = @ \ findById(@, id)])

\* -------------------------------------------------------------- Feedback
PostFeedback(d, body, t, oid) ==
    IF ~validateFeedback(body) THEN Outcome(Status(400, "Validation failed"), d)
    ELSE IF ~feedbackSchema(body)
        THEN Outcome(Failure("Failed to submit feedback", "Feedback validation failed"), d)
    ELSE LET saved == Doc(oid, body, t, t)
         IN Outcome(Response(201, "", <<saved>>, NoPagination, NoToken),
                    [d EXCEPT !.Feedback = @ \cup {saved}])

DeleteFeedback(d, token, id, t) ==
    IF ~authenticateToken(token, t) THEN Outcome(Unauthorized(token), d)
    ELSE IF findById(d.Feedback, id) = {} THEN Outcome(Status(404, "Feedback not found"), d)
    ELSE Outcome(Status(200, ""), [d EXCEPT !.Feedback = @ \ findById(@, id)])

\* -------------------------------------------------------------- Projects
PostProjects(d, token, body, t, oid) ==
    IF ~authenticateToken(token, t) THEN Outcome(Unauthorized(token), d)
    ELSE IF ~validateProject(body) THEN Outcome(Status(400, "Validation failed"), d)
    ELSE LET saved == Doc(oid, body, t, t)
         IN Outcome(Response(201, "", <<saved>>, NoPagination, NoToken),
                    [d EXCEPT !.Project = @ \cup {saved}])

PutProjects(d, token, id, body, t) ==
    IF ~authenticateToken(token, t) THEN Outcome(Unauthorized(token), d)
    ELSE IF ~validateProject(body) THEN Outcome(Status(400, "Validation failed"), d)
    ELSE IF findById(d.Project, id) = {} THEN Outcome(Status(404, "Project not found"), d)
    ELSE LET old == CHOOSE x \in findById(d.Project, id) : TRUE
             new == Doc(id, body, old.createdAt, t)
         IN Outcome(Response(200, "", <<new>>, NoPagination, NoToken),
                    [d EXCEPT !.Project = (@ \ {old}) \cup {new}])

DeleteProjects(d, token, id, t) ==
    IF ~authenticateToken(token, t) THEN Outcome(Unauthorized(token), d)
    ELSE IF findById(d.Project, id) = {} THEN Outcome(Status(404, "Project not found"), d)
    ELSE Outcome(Status(200, ""), [d EXCEPT !.Project = @ \ findById(@, id)])

\* -------------------------------------------------------------- Settings
GetSettings(d) == Outcome(Response(200, "", <<d.Settings>>, NoPagination, NoToken), d)

\* The request replaces the stored settings: unlisted keys are lost.
UpsertAll_Replace(stored, settings) == settings

\* One findOneAndUpdate(..., {upsert: true}) per entry of the request.
UpsertAll(stored, settings) ==
    [k \in DOMAIN stored \cup DOMAIN settings |->
        IF k \in DOMAIN settings THEN settings[k] ELSE stored[k]]

PutSettings(d, token, settings, t) ==
    IF ~authenticateToken(token, t) THEN Outcome(Unauthorized(token), d)
    ELSE Outcome(Status(200, ""), [d EXCEPT !.Settings = UpsertAll(@, settings)])

\* ------------------------------------------------------------ the client
ProjectIdBase == 200

\* The zero-padded counter string, kept apart from the other kinds of id.
generateProjectId(counter) == ProjectIdBase + counter

\* ------------------------------------------------- requests of any client
Req(op, token, id, body, t) ==
    [op |-> op, token |-> token, id |-> id, body |-> body, at |-> t]
NoReq == Req("none", NoToken, NoId, <<>>, 0)

\* The tokens a request may carry: none, a forged one, or one that was issued.
Tokens == {NoToken, ForgedToken} \cup issued

AllIds == 1..MaxOid

Answer(req, out) ==
    /\ lastReq' = req
    /\ lastRes' = out.res
    /\ db' = out.db

Login(password) ==
    /\ Cardinality(issued) < MaxLogins
    /\ LET res == AuthLogin(password, now)
       IN /\ Answer(Req("login", NoToken, NoId, <<password>>, now), Outcome(res, db))
          /\ issued' = IF res.token.present THEN issued \cup {res.token} ELSE issued
    /\ UNCHANGED <<now, oidCounter>>

\* The same request with the entry it leaves in AuthLog: every branch of the
\* handler calls logAuthAttempt once, with success true on the token branch.
LoginAttempt(password, saved) ==
    /\ Len(authLog) < MaxAuthLog
    /\ LET res == AuthLogin(password, now)
       IN /\ Answer(Req("login", NoToken, NoId, <<password>>, now), Outcome(res, db))
          /\ issued' = IF res.token.present THEN issued \cup {res.token} ELSE issued
          /\ authLog' = logAuthAttempt(authLog, res.token.present, saved)
    /\ UNCHANGED <<now, oidCounter>>

Verify(token) ==
    /\ Answer(Req("verify", token, NoId, <<>>, now), Outcome(AuthVerify(token, now), db))
    /\ UNCHANGED <<now, oidCounter, issued>>

ListRecords(token, page, limit, sortOrder) ==
    /\ Answer(Req("GET /api/records", token, NoId, <<page, limit, sortOrder>>, now),
              GetRecords(db, page, limit, sortOrder))
    /\ UNCHANGED <<now, oidCounter, issued>>

ListFeedback(token, page, limit) ==
    /\ Answer(Req("GET /api/feedback", token, NoId, <<page, limit, "desc">>, now),
              GetFeedback(db, page, limit))
    /\ UNCHANGED <<now, oidCounter, issued>>

ListProjects(token, page, limit) ==
    /\ Answer(Req("GET /api/projects", token, NoId, <<page, limit, "desc">>, now),
              GetProjects(db, page, limit))
    /\ UNCHANGED <<now, oidCounter, issued>>

\* A request that stamps a document with now; a create also draws the next
\* ObjectId, and the clock has moved on when the next request arrives.
Stamping(req, out) ==
    /\ now < MaxTime
    /\ Answer(req, out)
    /\ now' = IF out.res.status = 201 THEN now + 1 ELSE now
    /\ oidCounter' = IF out.res.status = 201 THEN oidCounter + 1 ELSE oidCounter
    /\ UNCHANGED issued

CreateRecord(token, body) ==
    /\ oidCounter < MaxOid
    /\ Stamping(Req("POST /api/records", token, NoId, body, now),
                PostRecords(db, token, body, now, oidCounter + 1))

UpdateRecord(token, id, body) ==
    Stamping(Req("PUT /api/records", token, id, body, now), PutRecords(db, token, id, body, now))

DeleteRecord(token, id) ==
    /\ Answer(Req("DELETE /api/records", token, id, <<>>, now), DeleteRecords(db, token, id, now))
    /\ UNCHANGED <<now, oidCounter, issued>>

CreateFeedback(token, body) ==
    /\ oidCounter < MaxOid
    /\ Stamping(Req("POST /api/feedback", token, NoId, body, now),
                PostFeedback(db, body, now, oidCounter + 1))

RemoveFeedback(token, id) ==
    /\ Answer(Req("DELETE /api/feedback", token, id, <<>>, now), DeleteFeedback(db, token, id, now))
    /\ UNCHANGED <<now, oidCounter, issued>>

CreateProject(token, body) ==
    /\ oidCounter < MaxOid
    /\ Stamping(Req("POST /api/projects", token, NoId, body, now),
                PostProjects(db, token, body, now, oidCounter + 1))

UpdateProject(token, id, body) ==
    Stamping(Req("PUT /api/projects", token, id, body, now), PutProjects(db, token, id, body, now))

RemoveProject(token, id) ==
    /\ Answer(Req("DELETE /api/projects", token, id, <<>>, now), DeleteProjects(db, token, id, now))
    /\ UNCHANGED <<now, oidCounter, issued>>

ReadSettings(token) ==
    /\ Answer(Req("GET /api/settings", token, NoId, <<>>, now), GetSettings(db))
    /\ UNCHANGED <<now, oidCounter, issued>>

WriteSettings(token, settings) ==
    /\ Answer(Req("PUT /api/settings", token, NoId, settings, now), PutSettings(db, token, settings, now))
    /\ UNCHANGED <<now, oidCounter, issued>>

\* A List with a query string: ?page=..&limit=.. as sent.
QueryRecords(page, limit, sortOrder) ==
    /\ Answer(Req("GET /api/records", NoToken, NoId, <<page, limit, sortOrder>>, now),
              Outcome(FindPage(db.Record, page, limit, sortOrder = "desc",
                               "Failed to fetch records"), db))
    /\ UNCHANGED <<now, oidCounter, issued>>

QueryFeedback(page, limit) ==
    /\ Answer(Req("GET /api/feedback", NoToken, NoId, <<page, limit, "desc">>, now),
              Outcome(FindPage(db.Feedback, page, limit, TRUE, "Failed to fetch feedback"), db))
    /\ UNCHANGED <<now, oidCounter, issued>>

QueryProjects(page, limit) ==
    /\ Answer(Req("GET /api/projects", NoToken, NoId, <<page, limit, "desc">>, now),
              Outcome(FindPage(db.Project, page, limit, TRUE, "Failed to fetch projects"), db))
    /\ UNCHANGED <<now, oidCounter, issued>>

\* A request whose body express.json() cannot parse: the parser passes its
\* error to next() and the error handling middleware answers.
BodyOps == {"POST /api/auth/login", "POST /api/records", "POST /api/feedback"}

MalformedBody(op) ==
    /\ Answer(Req(op, NoToken, NoId, <<"{">>, now),
              Outcome(errorMiddleware("Unexpected end of JSON input"), db))
    /\ UNCHANGED <<now, oidCounter, issued>>

Tick ==
    /\ now < MaxTime
    /\ now' = now + 1
    /\ lastReq' = NoReq
    /\ lastRes' = Status(0, "")
    /\ UNCHANGED <<db, oidCounter, issued>>

\* The requests of the Resource API and the Auth Gate, from any HTTP client.
\* A List without a query string gets the defaults of the handler.
ApiRequest ==
    \/ \E p \in Passwords : Login(p)
    \/ \E tok \in Tokens :
        \/ Verify(tok)
        \/ ListRecords(tok, DefaultPage, DefaultLimit, "desc")
        \/ ListFeedback(tok, DefaultPage, DefaultLimit)
        \/ ListProjects(tok, DefaultPage, DefaultLimit)
        \/ \E body \in JobBodies :
            \/ CreateRecord(tok, body)
            \/ \E id \in AllIds : UpdateRecord(tok, id, body)
        \/ \E id \in AllIds : DeleteRecord(tok, id)
        \/ \E body \in FeedbackBodies : CreateFeedback(tok, body)
        \/ \E id \in AllIds : RemoveFeedback(tok, id)
        \/ \E body \in ProjectBodies :
            \/ CreateProject(tok, body)
            \/ \E id \in AllIds : UpdateProject(tok, id, body)
        \/ \E id \in AllIds : RemoveProject(tok, id)

\* The state a new PrintingAnalyticsApp() has, with nothing in localStorage.
Constructed ==
    [records |-> <<>>, feedback |-> <<>>, projects |-> <<>>,
     investment |-> DefaultInvestment, projectIdCounter |-> 1,
     projectUniqueId |-> generateProjectId(1),
     editingRecordId |-> NoId, isOnline |-> TRUE, authToken |-> NoToken]

NoStorage ==
    [present |-> FALSE, records |-> <<>>, feedback |-> <<>>, projects |-> <<>>,
     investment |-> 0, projectIdCounter |-> 0]

Idle == [pc |-> "idle", queue |-> <<>>, log |-> <<>>]

Action(name, online, entity, calls, alerts) ==
    [name |-> name, online |-> online, entity |-> entity, calls |-> calls, alerts |-> alerts]
NoAction == Action("none", FALSE, [id |-> NoId], <<>>, <<>>)

InitClient ==
    /\ app = Constructed
    /\ localStorage = NoStorage
    /\ sync = Idle
    /\ overlap = Idle
    /\ lastAction = NoAction

Init ==
    /\ InitClient
    /\ now = 0
    /\ db = [Record |-> {}, Feedback |-> {}, Project |-> {}, Settings |-> NoSettings]
    /\ oidCounter = 0
    /\ issued = {}
    /\ lastReq = NoReq
    /\ lastRes = Status(0, "")
    /\ authLog = <<>>
    /\ dataDir = NoDataDir

vars ==
    <<now, db, oidCounter, issued, lastReq, lastRes, authLog, dataDir,
      app, localStorage, sync, overlap, lastAction>>

NextApi == (ApiRequest \/ Tick) /\ UNCHANGED <<cliVars, authLog, dataDir>>

SpecApi == Init /\ [][NextApi]_vars

\* ======================================================================
\* Client State Mirror (app-fixed.js)
\* ======================================================================
MaxLocal == 2
MaxAdminLogins == 2

FormJobBodies ==
    { JobBody("Widget A", Quantities(2, 3), 5, 2, 10, "pending"),
      JobBody("Widget A", Quantities(0, 0), 0, 2, 0, "pending") }

FormFeedbackBodies == { FeedbackBody(Whole(4), "general") }

FormProjectBodies == { ProjectBody("Jig", "high") }

Entry(id, body) == [id |-> id, body |-> body]

\* A listed document as the mirror holds it.
Entries(data) == [k \in 1..Len(data) |-> Entry(data[k].id, data[k].body)]

Call(op, id, status) == [op |-> op, id |-> id, status |-> status]

logout(a) == [a EXCEPT !.authToken = NoToken]

\* What apiRequest gives its caller: parsed JSON, null (after a 401), or a
\* thrown Error with its message; the collections after the request; the app
\* after a possible logout().
Fetched(kind, message, res, d, a) ==
    [kind |-> kind, message |-> message, res |-> res, db |-> d, app |-> a]

apiRequest(a, d, out, netOk) ==
    IF ~netOk THEN Fetched("throw", "Failed to fetch", Status(0, ""), d, a)
    ELSE IF out.res.status = 401 THEN Fetched("null", "", out.res, out.db, logout(a))
    ELSE IF out.res.status \notin 200..299
         THEN Fetched("throw", out.res.error, out.res, out.db, a)
    ELSE Fetched("json", "", out.res, out.db, a)

saveToLocalStorage(a) ==
    [present |-> TRUE, records |-> a.records, feedback |-> a.feedback,
     projects |-> a.projects, investment |-> a.investment,
     projectIdCounter |-> a.projectIdCounter]

OrDefault(v, default) == IF v = 0 THEN default ELSE v

loadLocalData(a, ls) ==
    IF ~ls.present THEN a
    ELSE [a EXCEPT !.records = ls.records, !.feedback = ls.feedback,
                   !.projects = ls.projects,
                   !.investment = OrDefault(ls.investment, DefaultInvestment),
                   !.projectIdCounter = OrDefault(ls.projectIdCounter, 1)]

Setting(settings, key, default) ==
    IF key \in DOMAIN settings THEN OrDefault(settings[key], default) ELSE default

\* The four GETs of loadData are answered together (loadOk) or one of them
\* fails and the catch falls back to loadLocalData.
loadData(a, d, ls, loadOk) ==
    IF loadOk
    THEN [a EXCEPT !.records = Entries(GetRecords(d, DefaultPage, DefaultLimit, "desc").res.data),
                   !.feedback = Entries(GetFeedback(d, DefaultPage, DefaultLimit).res.data),
                   !.projects = Entries(GetProjects(d, DefaultPage, DefaultLimit).res.data),
                   !.investment = Setting(d.Settings, "investment", DefaultInvestment),
                   !.projectIdCounter = Setting(d.Settings, "projectIdCounter", 1)]
    ELSE loadLocalData(a, ls)

loadDataCalls(loadOk) ==
    LET st == IF loadOk THEN 200 ELSE 0
    IN <<Call("GET /records", NoId, st), Call("GET /feedback", NoId, st),
         Call("GET /projects", NoId, st), Call("GET /settings", NoId, st)>>

loadDataAlerts(loadOk) ==
    IF loadOk THEN <<>> ELSE <<"Connection failed. Using offline mode.">>

expiredAlerts(f) ==
    IF f.kind = "null" THEN <<"Session expired. Please login again.">> ELSE <<>>

IndexOf(seq, id) ==
    IF \E k \in 1..Len(seq) : seq[k].id = id
    THEN CHOOSE k \in 1..Len(seq) : seq[k].id = id /\ \A j \in 1..(k - 1) : seq[j].id # id
    ELSE 0

\* handleOfflineSave without the write to localStorage.
handleOfflineSave_NoPush(a, record) ==
    [a EXCEPT !.editingRecordId = NoId]

\* handleOfflineSave up to saveToLocalStorage(): the in-memory update.
handleOfflineSave(a, record) ==
    [a EXCEPT !.records =
                 IF a.editingRecordId # NoId /\ IndexOf(a.records, a.editingRecordId) # 0
                 THEN [@ EXCEPT ![IndexOf(a.records, a.editingRecordId)] = record]
                 ELSE Append(@, record),
              !.editingRecordId = NoId]

\* A step of the client: no request of another HTTP client is answered by it.
ClientStep(a, ls, sy, act, d, t, oid) ==
    /\ app' = a
    /\ localStorage' = ls
    /\ sync' = sy
    /\ overlap' = overlap
    /\ lastAction' = act
    /\ db' = d
    /\ now' = t
    /\ oidCounter' = oid
    /\ UNCHANGED <<lastReq, lastRes, authLog, dataDir>>

Created(f) == IF f.res.status = 201 THEN 1 ELSE 0

\* authenticate(password): POST /auth/login.
Authenticate(password, netOk) ==
    /\ Cardinality(issued) < MaxLogins
    /\ LET f == apiRequest(app, db, Outcome(AuthLogin(password, now), db), netOk)
           ok == f.kind = "json"
       IN /\ ClientStep(IF ok THEN [f.app EXCEPT !.authToken = f.res.token] ELSE f.app,
                        localStorage, sync,
                        Action("authenticate", app.isOnline, [id |-> NoId],
                               <<Call("POST /auth/login", NoId, f.res.status)>>,
                               expiredAlerts(f)),
                        db, now, oidCounter)
          /\ issued' = IF ok THEN issued \cup {f.res.token} ELSE issued

\* editRecord(id): the Job is put in the form.
editRecord(a, id) == [a EXCEPT !.editingRecordId = id]

\* editRecord(id) as executeAuthAction calls it.
EditRecord(id) ==
    /\ app.authToken.present
    /\ IndexOf(app.records, id) # 0
    /\ ClientStep(editRecord(app, id), localStorage, sync,
                  Action("editRecord", app.isOnline, [id |-> id], <<>>, <<>>),
                  db, now, oidCounter)
    /\ UNCHANGED issued

saveRecord(body, netOk, loadOk) ==
    /\ now < MaxTime
    /\ Len(app.records) < MaxLocal
    /\ LET put == app.editingRecordId # NoId
           record == Entry(IF put THEN app.editingRecordId ELSE ClientIdBase + now, body)
           out == IF put THEN PutRecords(db, app.authToken, record.id, body, now)
                         ELSE PostRecords(db, app.authToken, body, now, oidCounter + 1)
           op == IF put THEN "PUT /records" ELSE "POST /records"
           f == apiRequest(app, db, out, netOk)
           local == handleOfflineSave(app, record)
       IN IF app.isOnline /\ f.kind # "throw"
          THEN /\ oidCounter < MaxOid
               /\ ClientStep([loadData(f.app, f.db, localStorage, loadOk)
                                 EXCEPT !.editingRecordId = NoId],
                             localStorage, sync,
                             Action("saveRecord", TRUE, record,
                                    <<Call(op, record.id, f.res.status)>> \o loadDataCalls(loadOk),
                                    expiredAlerts(f) \o loadDataAlerts(loadOk)
                                        \o <<"Record saved successfully!">>),
                             f.db, now + 1, oidCounter + Created(f))
          ELSE ClientStep(local, saveToLocalStorage(local), sync,
                          Action("saveRecord", app.isOnline, record,
                                 IF app.isOnline THEN <<Call(op, record.id, f.res.status)>>
                                                 ELSE <<>>,
                                 <<"Record saved locally. Will sync when online.">>),
                          IF app.isOnline THEN f.db ELSE db, now + 1, oidCounter)
    /\ UNCHANGED issued

saveFeedback(body, netOk, loadOk) ==
    /\ now < MaxTime
    /\ Len(app.feedback) < MaxLocal
    /\ LET newFeedback == Entry(ClientIdBase + now, body)
           f == apiRequest(app, db, PostFeedback(db, body, now, oidCounter + 1), netOk)
           local == [app EXCEPT !.feedback = Append(@, newFeedback)]
       IN IF app.isOnline /\ f.kind # "throw"
          THEN /\ oidCounter < MaxOid
               /\ ClientStep(loadData(f.app, f.db, localStorage, loadOk), localStorage, sync,
                             Action("saveFeedback", TRUE, newFeedback,
                                    <<Call("POST /feedback", NoId, f.res.status)>>
                                        \o loadDataCalls(loadOk),
                                    loadDataAlerts(loadOk)
                                        \o <<"Feedback submitted successfully!">>),
                             f.db, now + 1, oidCounter + Created(f))
          ELSE ClientStep(local, saveToLocalStorage(local), sync,
                          Action("saveFeedback", app.isOnline, newFeedback,
                                 IF app.isOnline THEN <<Call("POST /feedback", NoId, f.res.status)>>
                                                 ELSE <<>>,
                                 IF app.isOnline
                                 THEN <<"Saved locally. Check connection.">>
                                 ELSE <<"Feedback saved locally. Will sync when online.">>),
                          IF app.isOnline THEN f.db ELSE db, now + 1, oidCounter)
    /\ UNCHANGED issued

\* saveSettings(): PUT /settings with the mirror's settings; a failure is
\* logged and swallowed.
saveSettings(a, d, t, netOk) ==
    apiRequest(a, d,
               PutSettings(d, a.authToken,
                           [k \in SettingKeys |-> IF k = "investment" THEN a.investment
                                                  ELSE a.projectIdCounter],
                           t),
               netOk)

resetProjectForm(a) == [a EXCEPT !.projectUniqueId = generateProjectId(a.projectIdCounter)]

saveProject(body, netOk, settingsOk, loadOk) ==
    /\ now < MaxTime
    /\ Len(app.projects) < MaxLocal
    /\ LET newProject == Entry(app.projectUniqueId, body)
           f == apiRequest(app, db, PostProjects(db, app.authToken, body, now, oidCounter + 1), netOk)
           counted == [f.app EXCEPT !.projectIdCounter = @ + 1]
           g == saveSettings(counted, f.db, now, settingsOk)
           local == [app EXCEPT !.projects = Append(@, newProject),
                                !.projectIdCounter = @ + 1]
       IN IF app.isOnline /\ f.kind # "throw"
          THEN /\ oidCounter < MaxOid
               /\ ClientStep(resetProjectForm(loadData(g.app, g.db, localStorage, loadOk)),
                             localStorage, sync,
                             Action("saveProject", TRUE, newProject,
                                    <<Call("POST /projects", NoId, f.res.status),
                                      Call("PUT /settings", NoId, g.res.status)>>
                                        \o loadDataCalls(loadOk),
                                    expiredAlerts(f) \o expiredAlerts(g)
                                        \o <<"Project added successfully!">>
                                        \o loadDataAlerts(loadOk)),
                             g.db, now + 1, oidCounter + Created(f))
          ELSE ClientStep(resetProjectForm(local), saveToLocalStorage(local), sync,
                          Action("saveProject", app.isOnline, newProject,
                                 IF app.isOnline THEN <<Call("POST /projects", NoId, f.res.status)>>
                                                 ELSE <<>>,
                                 IF app.isOnline
                                 THEN <<"Saved locally. Check connection.">>
                                 ELSE <<"Project saved locally. Will sync when online.">>),
                          IF app.isOnline THEN f.db ELSE db, now + 1, oidCounter)
    /\ UNCHANGED issued

\* ------------------------------------------------ password-gated actions
\* What a method leaves behind: the app, the blob, the collections, the
\* requests it made and the alerts it showed.
Done(a, ls, d, calls, alerts) ==
    [app |-> a, localStorage |-> ls, db |-> d, calls |-> calls, alerts |-> alerts]

\* deleteRecord(id): DELETE /records/:id, then loadData(); the catch only
\* shows an alert.
deleteRecord(a, d, ls, id, t, netOk, loadOk) ==
    LET f == apiRequest(a, d, DeleteRecords(d, a.authToken, id, t), netOk)
        call == Call("DELETE /records", id, f.res.status)
    IN IF f.kind = "throw"
       THEN Done(f.app, ls, f.db, <<call>>, <<"Failed to delete record">>)
       ELSE Done(loadData(f.app, f.db, ls, loadOk), ls, f.db,
                 <<call>> \o loadDataCalls(loadOk),
                 expiredAlerts(f) \o loadDataAlerts(loadOk)
                     \o <<"Record deleted successfully!">>)

Without(seq, id) == SelectSeq(seq, LAMBDA e : e.id # id)

AuthActions ==
    {"editRecord", "deleteRecord", "deleteFeedback", "deleteProject",
     "clearAllRecords", "clearAllFeedback"}

\* executeAuthAction(): deleteRecord goes to the server; the other actions
\* change the mirror and the blob only.
executeAuthAction(a, d, ls, authAction, authId, t, netOk, loadOk) ==
    LET local(b, alert) == Done(b, saveToLocalStorage(b), d, <<>>, <<alert>>)
    IN CASE authAction = "editRecord" -> Done(editRecord(a, authId), ls, d, <<>>, <<>>)
         [] authAction = "deleteRecord" -> deleteRecord(a, d, ls, authId, t, netOk, loadOk)
         [] authAction = "deleteFeedback" ->
                local([a EXCEPT !.feedback = Without(@, authId)], "Feedback deleted.")
         [] authAction = "deleteProject" ->
                local([a EXCEPT !.projects = Without(@, authId)], "Project deleted.")
         [] authAction = "clearAllRecords" ->
                local([a EXCEPT !.records = <<>>], "All records cleared.")
         [] authAction = "clearAllFeedback" ->
                local([a EXCEPT !.feedback = <<>>], "All feedback cleared.")

\* verifyAuth() for the action and id that requestAuth stored: authenticate
\* with the password typed, then executeAuthAction() or 'Incorrect password!'.
verifyAuth(password, authAction, authId, loginOk, netOk, loadOk) ==
    /\ Cardinality(issued \cup {jwtSign(now)}) <= MaxAdminLogins
    /\ LET f == apiRequest(app, db, Outcome(AuthLogin(password, now), db), loginOk)
           isAuthenticated == f.kind = "json"
           login == Call("POST /auth/login", NoId, f.res.status)
           done == executeAuthAction([f.app EXCEPT !.authToken = f.res.token], db,
                                     localStorage, authAction, authId, now, netOk, loadOk)
       IN IF isAuthenticated
          THEN /\ ClientStep(done.app, done.localStorage, sync,
                             Action(authAction, app.isOnline, [id |-> authId],
                                    <<login>> \o done.calls, done.alerts),
                             done.db, now, oidCounter)
               /\ issued' = issued \cup {f.res.token}
          ELSE /\ ClientStep(f.app, localStorage, sync,
                             Action("verifyAuth", app.isOnline, [id |-> authId], <<login>>,
                                    expiredAlerts(f) \o <<"Incorrect password!">>),
                             db, now, oidCounter)
               /\ UNCHANGED issued

\* --------------------------------------------------- Reconciliation Loop
\* error.message.includes('not found'), for any error at all.
includesNotFound_Always(message) == TRUE

\* error.message.includes('not found')
includesNotFound(message) ==
    message \in {"Record not found", "Feedback not found", "Project not found"}

Advance(sy, call) ==
    IF Len(sy.queue) > 1
    THEN [pc |-> "put", queue |-> Tail(sy.queue), log |-> Append(sy.log, call)]
    ELSE [pc |-> "idle", queue |-> <<>>, log |-> Append(sy.log, call)]

\* A sweep that takes the cached Feedback along with the cached Jobs.
syncWithServer_WithFeedback(a, netOk) ==
    /\ sync.pc = "idle"
    /\ LET call == Call("GET /health", NoId, IF netOk THEN 200 ELSE 0)
           all == localStorage.records \o localStorage.feedback
       IN ClientStep([a EXCEPT !.isOnline = netOk], localStorage,
                     IF netOk /\ localStorage.present /\ all # <<>>
                     THEN [pc |-> "put", queue |-> all, log |-> <<call>>]
                     ELSE [pc |-> "idle", queue |-> <<>>, log |-> <<call>>],
                     lastAction, db, now, oidCounter)
    /\ UNCHANGED issued

\* syncWithServer() up to the loop: the health probe, then the local blob.
syncWithServer(a, netOk) ==
    /\ sync.pc = "idle"
    /\ LET call == Call("GET /health", NoId, IF netOk THEN 200 ELSE 0)
       IN ClientStep([a EXCEPT !.isOnline = netOk], localStorage,
                     IF netOk /\ localStorage.present /\ localStorage.records # <<>>
                     THEN [pc |-> "put", queue |-> localStorage.records, log |-> <<call>>]
                     ELSE [pc |-> "idle", queue |-> <<>>, log |-> <<call>>],
                     lastAction, db, now, oidCounter)
    /\ UNCHANGED issued

\* setInterval(() => this.syncWithServer(), 30000)
Timer(netOk) == syncWithServer(app, netOk)

\* window 'online': the flag is set, then the sweep starts.
OnlineEvent(netOk) == syncWithServer([app EXCEPT !.isOnline = TRUE], netOk)

\* window 'offline'
OfflineEvent ==
    /\ ClientStep([app EXCEPT !.isOnline = FALSE], localStorage, sync, lastAction,
                  db, now, oidCounter)
    /\ UNCHANGED issued

\* The PUT of the loop for the next Job of the blob.
SyncPut(netOk) ==
    /\ sync.pc = "put"
    /\ now < MaxTime
    /\ LET record == Head(sync.queue)
           f == apiRequest(app, db, PutRecords(db, app.authToken, record.id, record.body, now), netOk)
           call == Call("PUT /records", record.id, f.res.status)
       IN ClientStep(f.app, localStorage,
                     IF f.kind = "throw" /\ includesNotFound(f.message)
                     THEN [sync EXCEPT !.pc = "post", !.log = Append(@, call)]
                     ELSE Advance(sync, call),
                     lastAction, f.db, now, oidCounter)
    /\ UNCHANGED issued

\* The POST in the catch of the loop; an error thrown here ends the sweep in
\* the outer catch.
SyncPost(netOk) ==
    /\ sync.pc = "post"
    /\ now < MaxTime
    /\ netOk => oidCounter < MaxOid
    /\ LET record == Head(sync.queue)
           f == apiRequest(app, db, PostRecords(db, app.authToken, record.body, now, oidCounter + 1), netOk)
           call == Call("POST /records", record.id, f.res.status)
       IN ClientStep(IF f.kind = "throw" THEN [f.app EXCEPT !.isOnline = FALSE] ELSE f.app,
                     localStorage,
                     IF f.kind = "throw"
                     THEN [pc |-> "idle", queue |-> <<>>, log |-> Append(sync.log, call)]
                     ELSE Advance(sync, call),
                     lastAction, f.db, now + Created(f), oidCounter + Created(f))
    /\ UNCHANGED issued

\* ------------------------------------------------- a sweep during a sweep
\* syncWithServer() has no guard: the timer and the 'online' listener call
\* it whether or not an earlier call has returned.  A step of the second
\* call:
OverlapStep(a, ov, d, t, oid) ==
    /\ app' = a
    /\ overlap' = ov
    /\ db' = d
    /\ now' = t
    /\ oidCounter' = oid
    /\ UNCHANGED <<localStorage, sync, lastAction, issued, lastReq, lastRes,
                   authLog, dataDir>>

syncWithServerAgain(a, netOk) ==
    /\ sync.pc # "idle"
    /\ overlap.pc = "idle"
    /\ LET call == Call("GET /health", NoId, IF netOk THEN 200 ELSE 0)
       IN OverlapStep([a EXCEPT !.isOnline = netOk],
                      IF netOk /\ localStorage.present /\ localStorage.records # <<>>
                      THEN [pc |-> "put", queue |-> localStorage.records, log |-> <<call>>]
                      ELSE [pc |-> "idle", queue |-> <<>>, log |-> <<call>>],
                      db, now, oidCounter)

TimerDuringSweep(netOk) == syncWithServerAgain(app, netOk)

OnlineEventDuringSweep(netOk) == syncWithServerAgain([app EXCEPT !.isOnline = TRUE], netOk)

OverlapPut(netOk) ==
    /\ overlap.pc = "put"
    /\ now < MaxTime
    /\ LET record == Head(overlap.queue)
           f == apiRequest(app, db, PutRecords(db, app.authToken, record.id, record.body, now), netOk)
           call == Call("PUT /records", record.id, f.res.status)
       IN OverlapStep(f.app,
                      IF f.kind = "throw" /\ includesNotFound(f.message)
                      THEN [overlap EXCEPT !.pc = "post", !.log = Append(@, call)]
                      ELSE Advance(overlap, call),
                      f.db, now, oidCounter)

OverlapPost(netOk) ==
    /\ overlap.pc = "post"
    /\ now < MaxTime
    /\ netOk => oidCounter < MaxOid
    /\ LET record == Head(overlap.queue)
           f == apiRequest(app, db, PostRecords(db, app.authToken, record.body, now, oidCounter + 1), netOk)
           call == Call("POST /records", record.id, f.res.status)
       IN OverlapStep(IF f.kind = "throw" THEN [f.app EXCEPT !.isOnline = FALSE] ELSE f.app,
                      IF f.kind = "throw"
                      THEN [pc |-> "idle", queue |-> <<>>, log |-> Append(overlap.log, call)]
                      ELSE Advance(overlap, call),
                      f.db, now + Created(f), oidCounter + Created(f))

ClientTick == Tick /\ UNCHANGED <<cliVars, authLog, dataDir>>

NextClient ==
    \/ \E netOk \in BOOLEAN :
        \/ \E password \in Passwords : Authenticate(password, netOk)
        \/ \E loadOk \in BOOLEAN :
            \/ \E body \in FormJobBodies : saveRecord(body, netOk, loadOk)
            \/ \E body \in FormFeedbackBodies : saveFeedback(body, netOk, loadOk)
            \/ \E body \in FormProjectBodies, settingsOk \in BOOLEAN :
                  saveProject(body, netOk, settingsOk, loadOk)
        \/ Timer(netOk)
        \/ OnlineEvent(netOk)
        \/ SyncPut(netOk)
        \/ SyncPost(netOk)
    \/ \E id \in (1..MaxOid) \cup { ClientIdBase + t : t \in 0..MaxTime } : EditRecord(id)
    \/ OfflineEvent
    \/ ClientTick

Spec == Init /\ [][NextClient]_vars

\* ------------------------------------------------------ overlapping sweeps
\* Jobs are saved while the server cannot be reached, and the timer and the
\* 'online' event start sweeps, also while one is running.
NextOverlap ==
    \/ \E netOk \in BOOLEAN :
        \/ Authenticate(AdminPassword, netOk)
        \/ \E body \in FormJobBodies : saveRecord(body, FALSE, netOk)
        \/ Timer(netOk)
        \/ OnlineEvent(netOk)
        \/ SyncPut(netOk)
        \/ SyncPost(netOk)
        \/ TimerDuringSweep(netOk)
        \/ OnlineEventDuringSweep(netOk)
        \/ OverlapPut(netOk)
        \/ OverlapPost(netOk)
    \/ OfflineEvent

SpecOverlap == Init /\ [][NextOverlap]_vars

\* ------------------------------------------- the sweep that keeps running
\* Jobs are saved with or without a connection, with or without a login;
\* the server answers every request of a sweep.
NextLive ==
    \/ Authenticate(AdminPassword, TRUE)
    \/ \E body \in FormJobBodies, netOk \in BOOLEAN : saveRecord(body, netOk, TRUE)
    \/ OfflineEvent
    \/ Timer(TRUE)
    \/ SyncPut(TRUE)
    \/ SyncPost(TRUE)

\* setInterval keeps calling syncWithServer, and every request of a sweep
\* is answered, so the sweep goes on to its next step.
SpecLive ==
    /\ Init
    /\ [][NextLive]_vars
    /\ WF_vars(Timer(TRUE))
    /\ WF_vars(SyncPut(TRUE))
    /\ WF_vars(SyncPost(TRUE))

\* --------------------------------------------- the cache between saves
\* Two Jobs the server accepts, told apart by their fields.
CacheJobBodies ==
    { JobBody("Widget A", Quantities(2, 3), 5, 2, 10, "pending"),
      JobBody("Widget A", Quantities(1, 0), 1, 2, 2, "pending") }

\* Jobs are saved with and without a connection, a save that succeeds
\* reloads the mirror, and sweeps run.
NextCache ==
    \/ Authenticate(AdminPassword, TRUE)
    \/ \E body \in CacheJobBodies, netOk \in BOOLEAN, loadOk \in BOOLEAN :
          saveRecord(body, netOk, loadOk)
    \/ OfflineEvent
    \/ \E netOk \in BOOLEAN :
        \/ Timer(netOk)
        \/ OnlineEvent(netOk)
        \/ SyncPut(netOk)
        \/ SyncPost(netOk)

SpecCache == Init /\ [][NextCache]_vars

\* ------------------------------------------------- one sweep after another
\* Every Job is saved while its request fails, so the server gets Jobs from
\* sweeps only; the timer starts one sweep after the other.
NextSweeps ==
    \/ Authenticate(AdminPassword, TRUE)
    \/ \E body \in FormJobBodies : saveRecord(body, FALSE, TRUE)
    \/ OfflineEvent
    \/ \E netOk \in BOOLEAN :
        \/ Timer(netOk)
        \/ SyncPut(netOk)
        \/ SyncPost(netOk)

SpecSweeps == Init /\ [][NextSweeps]_vars

\* ------------------------------------- saves and password-gated actions
\* The ids requestAuth can be given: those of the rows on display.
Displayed(a, authAction) ==
    IF authAction \in {"editRecord", "deleteRecord"}
        THEN { a.records[k].id : k \in 1..Len(a.records) }
    ELSE IF authAction = "deleteFeedback" THEN { a.feedback[k].id : k \in 1..Len(a.feedback) }
    ELSE IF authAction = "deleteProject" THEN { a.projects[k].id : k \in 1..Len(a.projects) }
    ELSE {NoId}

\* The password-gated actions on Jobs.
AdminActions == {"deleteRecord", "clearAllRecords"}

\* Jobs are saved, and deleted or cleared behind the password.
NextAdmin ==
    \E netOk \in BOOLEAN, loadOk \in BOOLEAN :
        \/ \E body \in FormJobBodies : saveRecord(body, netOk, loadOk)
        \/ \E password \in Passwords, authAction \in AdminActions, loginOk \in BOOLEAN :
              \E authId \in Displayed(app, authAction) :
                 verifyAuth(password, authAction, authId, loginOk, netOk, loadOk)

SpecAdmin == Init /\ [][NextAdmin]_vars

\* ------------------------------------------- removals behind the password
\* The password-gated actions that remove Feedback, Projects or every Job.
RemoveActions == {"deleteFeedback", "deleteProject", "clearAllRecords", "clearAllFeedback"}

\* With the server answering every request: Jobs, Feedback and Projects are
\* saved, and removed behind the password.
NextRemove ==
    \/ \E body \in CacheJobBodies : saveRecord(body, TRUE, TRUE)
    \/ \E body \in FormFeedbackBodies : saveFeedback(body, TRUE, TRUE)
    \/ \E body \in FormProjectBodies : saveProject(body, TRUE, TRUE, TRUE)
    \/ \E authAction \in RemoveActions :
          \E authId \in Displayed(app, authAction) :
             verifyAuth(AdminPassword, authAction, authId, TRUE, TRUE, TRUE)

SpecRemove == Init /\ [][NextRemove]_vars

\* ------------------------------------------ edits here and on the server
\* The body another client puts in a Job.
RemoteJobBodies == { body \in JobBodies : body.status = "completed" }

\* A Job is updated on the server by another client holding a token.
RemoteUpdate ==
    /\ \E tok \in issued, id \in AllIds, body \in RemoteJobBodies : UpdateRecord(tok, id, body)
    /\ UNCHANGED <<cliVars, authLog, dataDir>>

\* Jobs are saved, edited behind the password and swept, while another
\* client updates Jobs on the server.
NextConflict ==
    \/ Authenticate(AdminPassword, TRUE)
    \/ \E authId \in Displayed(app, "editRecord") :
          verifyAuth(AdminPassword, "editRecord", authId, TRUE, TRUE, TRUE)
    \/ \E netOk \in BOOLEAN :
        \/ \E body \in FormJobBodies : saveRecord(body, netOk, TRUE)
        \/ Timer(netOk)
        \/ SyncPut(netOk)
        \/ SyncPost(netOk)
    \/ RemoteUpdate

SpecConflict == Init /\ [][NextConflict]_vars

\* ------------------------------------------------- pagination of a List
\* A store holding n Jobs and n Projects, created one after the other.
MaxItems == 25

Seeded(n) ==
    [Record |-> { Doc(i, JobBody("Widget A", Quantities(1, 0), 1, 2, 2, "pending"), i, i) : i \in 1..n },
     Feedback |-> {},
     Project |-> { Doc(n + i, ProjectBody("Jig", "high"), n + i, n + i) : i \in 1..n },
     Settings |-> NoSettings]

InitPage ==
    \E n \in 0..MaxItems :
        /\ now = 2 * n + 1
        /\ db = Seeded(n)
        /\ oidCounter = 2 * n
        /\ issued = {}
        /\ lastReq = NoReq
        /\ lastRes = Status(0, "")
        /\ authLog = <<>>
        /\ dataDir = NoDataDir
        /\ InitClient

NextPage ==
    /\ \E page \in 1..MaxPage, limit \in 1..MaxLimit :
        \/ \E so \in {"asc", "desc"} : ListRecords(NoToken, page, limit, so)
        \/ ListFeedback(NoToken, page, limit)
        \/ ListProjects(NoToken, page, limit)
    /\ UNCHANGED <<cliVars, authLog, dataDir>>

SpecPage == InitPage /\ [][NextPage]_vars

\* ------------------------------------------- query strings as clients send
MaxSeed == 3

\* A store holding n Jobs, n Feedback and n Projects.
SeededAll(n) ==
    [Seeded(n) EXCEPT !.Feedback =
        { Doc(2 * n + i, FeedbackBody(Whole(4), "general"), 2 * n + i, 2 * n + i) : i \in 1..n }]

InitQuery ==
    \E n \in 0..MaxSeed :
        /\ now = 3 * n + 1
        /\ db = SeededAll(n)
        /\ oidCounter = 3 * n
        /\ issued = {}
        /\ lastReq = NoReq
        /\ lastRes = Status(0, "")
        /\ authLog = <<>>
        /\ dataDir = NoDataDir
        /\ InitClient

NextQuery ==
    /\ \E page \in QueryValues, limit \in QueryValues :
        \/ \E so \in {"asc", "desc"} : QueryRecords(page, limit, so)
        \/ QueryFeedback(page, limit)
        \/ QueryProjects(page, limit)
    /\ UNCHANGED <<cliVars, authLog, dataDir>>

SpecQuery == InitQuery /\ [][NextQuery]_vars

\* ------------------------------------------------- the settings routes
NextSettings ==
    /\ \/ \E p \in Passwords : Login(p)
       \/ \E tok \in Tokens :
            \/ ReadSettings(tok)
            \/ \E settings \in SettingsBodies : WriteSettings(tok, settings)
       \/ Tick
    /\ UNCHANGED <<cliVars, authLog, dataDir>>

SpecSettings == Init /\ [][NextSettings]_vars

\* ------------------------------------------------------ audited logins
NextLogin ==
    /\ \/ \E password \in Passwords \cup {NotAString}, saved \in BOOLEAN :
             LoginAttempt(password, saved)
       \/ \E tok \in Tokens : Verify(tok) /\ UNCHANGED authLog
       \/ Tick /\ UNCHANGED authLog
    /\ UNCHANGED <<cliVars, dataDir>>

SpecLogin == Init /\ [][NextLogin]_vars

\* --------------------------------------------------- requests that fail
\* Logins, creates and updates, also with bodies the parser, bcrypt or the
\* schema rejects.
NextErrors ==
    /\ \/ \E password \in Passwords \cup {NotAString} : Login(password)
       \/ \E tok \in Tokens :
            \/ \E body \in JobBodies :
                \/ CreateRecord(tok, body)
                \/ \E id \in AllIds : UpdateRecord(tok, id, body)
            \/ \E body \in FeedbackBodies : CreateFeedback(tok, body)
       \/ \E op \in BodyOps : MalformedBody(op)
       \/ Tick
    /\ UNCHANGED <<cliVars, authLog, dataDir>>

SpecErrors == Init /\ [][NextErrors]_vars

\* ------------------------------------------------- bodies with timestamps
\* The bodies of a client that sends a Job as it is, and of one that also
\* sends a createdAt: a date in the past, or one still to come.
StampedJobBodies ==
    LET job == JobBody("Widget A", Quantities(2, 3), 5, 2, 10, "pending")
    IN {job, WithCreatedAt(job, 0), WithCreatedAt(job, MaxTime + 1)}

NextStamps ==
    /\ \/ Login(AdminPassword)
       \/ \E tok \in Tokens, body \in StampedJobBodies :
            \/ CreateRecord(tok, body)
            \/ \E id \in AllIds : UpdateRecord(tok, id, body)
       \/ \E tok \in Tokens : ListRecords(tok, DefaultPage, DefaultLimit, "desc")
       \/ Tick
    /\ UNCHANGED <<cliVars, authLog, dataDir>>

SpecStamps == Init /\ [][NextStamps]_vars

\* ======================================================================
\* The flat-file server (server.js)
\* ======================================================================
\* The clock of this server moves on with every authentication attempt.
MaxAttempts == 102

\* 'Keep only last 100 auth attempts'
AuthLogCap == 100

correctPassword == "3dprinter@aqrl"

FlatPasswords == {correctPassword, "guess"}

allowedTypes == {"records", "feedback", "projects", "printers", "filaments", "export_logs"}

\* The :type of the requests made: one that is allowed and one that is not.
DataTypes == {"records", "auth_log"}

AuthAttempt(t, action, success) == [timestamp |-> t, action |-> action, success |-> success]

\* authLog.slice(0, 100): the oldest entries are kept.
keepLast_Oldest(log) ==
    IF Len(log) > AuthLogCap THEN SubSeq(log, 1, AuthLogCap) ELSE log

\* if (authLog.length > 100) authLog = authLog.slice(-100)
keepLast(log) ==
    IF Len(log) > AuthLogCap THEN SubSeq(log, Len(log) - AuthLogCap + 1, Len(log)) ELSE log

\* POST /api/data/:type: the data directory is made if it is not there and
\* the file of the type is written.
SaveData(type) ==
    /\ IF type \in allowedTypes
       THEN /\ dataDir' = [exists |-> TRUE, files |-> dataDir.files \cup {type}]
            /\ lastRes' = Status(200, "")
       ELSE /\ dataDir' = dataDir
            /\ lastRes' = Status(400, "Invalid data type")
    /\ lastReq' = Req("POST /api/data", NoToken, NoId, <<type>>, now)
    /\ UNCHANGED <<now, db, oidCounter, issued, authLog, cliVars>>

\* POST /api/auth/verify of server.js: the attempt is pushed on the log of
\* auth_log.json when the data directory exists, and answered.  Passwords
\* are typed wrong only while the log shows no failed attempt.
VerifyPassword(password, action) ==
    /\ now < MaxAttempts
    /\ password # correctPassword => \A k \in 1..Len(authLog) : authLog[k].success
    /\ LET authAttempt == AuthAttempt(now, action, password = correctPassword)
       IN authLog' = IF dataDir.exists THEN keepLast(Append(authLog, authAttempt))
                     ELSE authLog
    /\ lastReq' = Req("POST /api/auth/verify", NoToken, NoId, <<password, action>>, now)
    /\ lastRes' = Status(200, IF password = correctPassword THEN "" ELSE "Invalid credentials")
    /\ now' = now + 1
    /\ UNCHANGED <<db, oidCounter, issued, dataDir, cliVars>>

NextFlat ==
    \/ \E type \in DataTypes : SaveData(type)
    \/ \E password \in FlatPasswords : VerifyPassword(password, "delete")

SpecFlat == Init /\ [][NextFlat]_vars

\* ======================================================================
\* Properties
\* ======================================================================
GatedOps ==
    {"POST /api/records", "PUT /api/records", "DELETE /api/records",
     "DELETE /api/feedback",
     "POST /api/projects", "PUT /api/projects", "DELETE /api/projects"}

ListOps == {"GET /api/records", "GET /api/feedback", "GET /api/projects"}

Collection(d, op) ==
    IF op \in {"GET /api/records", "DELETE /api/records"} THEN d.Record
    ELSE IF op \in {"GET /api/feedback", "DELETE /api/feedback"} THEN d.Feedback
    ELSE d.Project

\* The token of a request is correctly signed and not expired when it arrives.
Credentialed(req) == req.token.present /\ req.token.signed /\ req.at < req.token.exp

TotalsConsistent(body) ==
    /\ body.totalQuantity = SumQuantities(body.quantities)
    /\ body.totalSavings = body.totalQuantity * body.savingsPerProduct

\* C1: every stored Job has totalQuantity equal to the sum of its seven
\* location counters and totalSavings equal to totalQuantity times
\* savingsPerProduct, and a create or update whose totals do not match its
\* counters is not accepted.
C1_StoredTotalsConsistent ==
    /\ \A d \in db.Record : TotalsConsistent(d.body)
    /\ (lastReq.op \in {"POST /api/records", "PUT /api/records"}
            /\ ~TotalsConsistent(lastReq.body))
        => lastRes.status \notin {200, 201}

C8_TokenValidForOneHour ==
    /\ (lastReq.op \in GatedOps \cup {"verify"} /\ lastReq.token \in issued)
        => /\ lastReq.at - lastReq.token.iat < TokenLifetime => lastRes.status # 401
           /\ lastReq.at - lastReq.token.iat > TokenLifetime => lastRes.status = 401
    /\ (lastReq.op = "verify" /\ lastReq.token \in issued
            /\ lastReq.at - lastReq.token.iat < TokenLifetime)
        => lastRes.status = 200
    /\ lastReq.op = "login"
        => (lastRes.token.present <=> lastReq.body = <<AdminPassword>>)
    /\ lastReq.op = "login"
        => (lastRes.token.present =>
               /\ lastRes.token \in issued
               /\ lastRes.token.iat = lastReq.at)

C8_Witness ==
    /\ lastReq.op = "verify"
    /\ lastReq.token \in issued
    /\ lastReq.at - lastReq.token.iat > TokenLifetime
    /\ lastRes.status = 401

DeleteOps == {"DELETE /api/records", "DELETE /api/feedback", "DELETE /api/projects"}

ListedIds(d, op) ==
    LET get(page, limit, so) ==
            IF op = "DELETE /api/records" THEN GetRecords(d, page, limit, so).res.data
            ELSE IF op = "DELETE /api/feedback" THEN GetFeedback(d, page, limit).res.data
            ELSE GetProjects(d, page, limit).res.data
    IN { get(page, limit, so)[k].id :
            <<page, limit, so, k>> \in
                { x \in (1..MaxPage) \X ({DefaultLimit} \cup (1..MaxLimit)) \X {"asc", "desc"} \X (1..MaxOid) :
                    x[4] <= Len(get(x[1], x[2], x[3])) } }

\* C9: an authenticated delete of an id that is in the collection answers
\* 200 and the document is then in no List result; an authenticated delete
\* of the same id straight after it, as of any id that is not in the
\* collection, answers 404 and changes nothing.
C9_DeleteTwice ==
    [][ /\ (lastReq'.op \in DeleteOps /\ Credentialed(lastReq')
              /\ lastReq'.id \in Ids(Collection(db, lastReq'.op)))
           => /\ lastRes'.status = 200
              /\ lastReq'.id \notin ListedIds(db', lastReq'.op)
        /\ (lastReq.op \in DeleteOps /\ lastRes.status = 200
              /\ lastReq'.op = lastReq.op /\ lastReq'.id = lastReq.id
              /\ Credentialed(lastReq'))
           => (lastRes'.status = 404 /\ db' = db)
        /\ (lastReq'.op \in DeleteOps /\ Credentialed(lastReq')
              /\ lastReq'.id \notin Ids(Collection(db, lastReq'.op)))
           => (lastRes'.status = 404 /\ db' = db)
      ]_vars

C9_Witness ==
    /\ lastReq.op \in DeleteOps
    /\ Credentialed(lastReq)
    /\ lastRes.status = 404
    /\ lastReq.id \in 1..oidCounter
    /\ lastReq.id \notin Ids(db.Record \cup db.Feedback \cup db.Project)
    /\ db.Record \cup db.Feedback \cup db.Project # {}

\* The place of a document in the requested order of its collection.
Position(d, coll, so) ==
    1 + Cardinality({ e \in coll : IF so = "desc" THEN e.createdAt > d.createdAt
                                                  ELSE e.createdAt < d.createdAt })

RECURSIVE AllPages(_, _, _, _)
AllPages(d, req, page, pages) ==
    IF page > pages THEN <<>>
    ELSE (IF req.op = "GET /api/records"
             THEN GetRecords(d, page, req.body[2], req.body[3]).res.data
          ELSE IF req.op = "GET /api/feedback"
             THEN GetFeedback(d, page, req.body[2]).res.data
          ELSE GetProjects(d, page, req.body[2]).res.data)
         \o AllPages(d, req, page + 1, pages)

\* C10: a List of page p with size s over N documents returns the documents
\* at places (p-1)*s+1 .. min(p*s, N) of the requested order, total = N and
\* pages = ceil(N/s); page 2 of size 10 over 25 documents has 10 documents
\* and pages = 3; the pages 1..ceil(N/s) hold every document exactly once.
C10_PageSlice ==
    lastReq.op \in ListOps =>
        LET coll == Collection(db, lastReq.op)
            N == Cardinality(coll)
            p == lastReq.body[1]
            s == lastReq.body[2]
            so == lastReq.body[3]
            data == lastRes.data
            first == (p - 1) * s + 1
            last == IF p * s <= N THEN p * s ELSE N
            whole == AllPages(db, lastReq, 1, lastRes.pagination.pages)
        IN /\ Len(data) = (IF last >= first THEN last - first + 1 ELSE 0)
           /\ \A k \in 1..Len(data) :
                  data[k] \in coll /\ Position(data[k], coll, so) = first + k - 1
           /\ lastRes.pagination.total = N
           /\ lastRes.pagination.pages * s >= N
           /\ (lastRes.pagination.pages - 1) * s < N \/ (N = 0 /\ lastRes.pagination.pages = 0)
           /\ (N = 25 /\ p = 2 /\ s = 10)
                  => (Len(data) = 10 /\ lastRes.pagination.pages = 3)
           /\ Len(whole) = N
           /\ \A d \in coll : \E k \in 1..Len(whole) : whole[k] = d

C10_Witness ==
    /\ lastReq.op = "GET /api/records"
    /\ Cardinality(db.Record) = 25
    /\ lastReq.body = <<2, 10, "desc">>
    /\ Len(lastRes.data) = 10
    /\ lastRes.data[1].createdAt = 15

Saves == {"saveRecord", "saveFeedback", "saveProject"}

Holds(seq, entity) == \E k \in 1..Len(seq) : seq[k] = entity

Mirror(a, name) ==
    IF name = "saveRecord" THEN a.records
    ELSE IF name = "saveFeedback" THEN a.feedback
    ELSE a.projects

\* The first call of the last action failed: no answer, or one that is not 2xx.
FirstCallFailed(act) ==
    act.calls # <<>> /\ act.calls[1].status \notin 200..299

\* C3: when isOnline is true and the API call of saveRecord fails (network
\* error, non-2xx, or 401), the record is in the in-memory records and in
\* the local cache afterwards, the user is told it was saved locally, and
\* the save is not reported as successful.
C3_FailedSaveIsLocalOnly ==
    (lastAction.name = "saveRecord" /\ lastAction.online /\ FirstCallFailed(lastAction))
    => /\ Holds(app.records, lastAction.entity)
       /\ localStorage.present
       /\ Holds(localStorage.records, lastAction.entity)
       /\ Holds(lastAction.alerts, "Record saved locally. Will sync when online.")
       /\ ~Holds(lastAction.alerts, "Record saved successfully!")

Pending(entry, d) == entry.id \notin Ids(d.Record)

\* C5: with one pending Job in the local cache, a sweep whose health probe
\* succeeds, whose update-by-id is answered 404 and whose fallback create
\* succeeds leaves that cache entry confirmed: no longer pending.
C5_PushedJobConfirmed ==
    [][ (/\ sync.pc = "post" /\ sync'.pc = "idle"
         /\ Len(sync'.log) = 3
         /\ sync'.log[1] = Call("GET /health", NoId, 200)
         /\ sync'.log[2].status = 404
         /\ sync'.log[3].status = 201
         /\ Len(localStorage'.records) = 1
         /\ localStorage'.records[1].id = sync'.log[3].id)
        => ~Pending(localStorage'.records[1], db')
      ]_vars

SweepStarts == \E netOk \in BOOLEAN : Timer(netOk) \/ OnlineEvent(netOk)

\* C6: a sweep begins with the health probe; only when it succeeds is
\* isOnline set true and any Job pushed; the Jobs pushed are those of the
\* local cache, each by a PUT first; a POST follows only the 404 of the PUT
\* for the same Job.
C6_SweepOrder ==
    [][ LET log == sync'.log
        IN /\ log # <<>> => log[1].op = "GET /health"
           /\ \A k \in 2..Len(log) :
                 /\ log[1].status = 200
                 /\ log[k].op \in {"PUT /records", "POST /records"}
                 /\ log[k].op = "POST /records"
                       => (k > 2 /\ log[k - 1] = Call("PUT /records", log[k].id, 404))
           /\ sync'.pc # "idle" => log[1].status = 200
           /\ SweepStarts
                 => /\ app'.isOnline <=> (log = <<Call("GET /health", NoId, 200)>>)
                    /\ sync'.pc # "idle" => sync'.queue = localStorage.records
           /\ sync'.pc = "put"
                 => (Len(log) = 1 \/ log[Len(log)].id # Head(sync'.queue).id
                        \/ log[Len(log)].op = "POST /records"
                        \/ log[Len(log)].status # 404)
      ]_vars

C6_Witness ==
    /\ Len(sync.log) >= 3
    /\ sync.log[2] = Call("PUT /records", sync.log[3].id, 404)
    /\ sync.log[3].op = "POST /records"
    /\ sync.log[3].status = 201

\* C7: when isOnline is true and the API call of a save succeeds, the
\* affected collection is reloaded from the server and the local cache
\* holds the reloaded collection when the action is over.
C7_CacheRefreshedAfterSave ==
    (/\ lastAction.name \in Saves /\ lastAction.online
     /\ lastAction.calls # <<>>
     /\ lastAction.calls[1].status \in 200..299
     /\ lastAction.calls[Len(lastAction.calls)] = Call("GET /settings", NoId, 200))
    => /\ localStorage.present
       /\ Mirror(localStorage, lastAction.name) = Mirror(app, lastAction.name)


PositiveInteger(v) == v.num /\ v.n >= 1

\* C11: a List whose page or limit is not a positive integer (zero,
\* negative, or not a number) is answered 400: not 500, and not with a
\* normal result.
C11_MalformedListIs400 ==
    (lastReq.op \in ListOps
        /\ (~PositiveInteger(lastReq.body[1]) \/ ~PositiveInteger(lastReq.body[2])))
    => lastRes.status = 400


\* C12: an accepted PUT /api/settings sets each key of the request to the
\* value sent, keeps the value of every key it does not list, and deletes
\* no key; writing {investment: 700000} leaves a stored projectIdCounter as
\* it was; GET /api/settings returns the stored mapping.
C12_SettingsMerge ==
    [][ /\ (lastReq'.op = "PUT /api/settings" /\ lastRes'.status = 200)
           => LET sent == lastReq'.body
              IN /\ DOMAIN db'.Settings = DOMAIN db.Settings \cup DOMAIN sent
                 /\ \A k \in DOMAIN sent : db'.Settings[k] = sent[k]
                 /\ \A k \in DOMAIN db.Settings \ DOMAIN sent :
                        db'.Settings[k] = db.Settings[k]
                 /\ (sent = [k \in {"investment"} |-> 700000]
                        /\ "projectIdCounter" \in DOMAIN db.Settings)
                    => db'.Settings["projectIdCounter"] = db.Settings["projectIdCounter"]
        /\ (lastReq'.op = "PUT /api/settings" /\ lastRes'.status # 200) => db' = db
        /\ lastReq'.op = "GET /api/settings"
           => (lastRes'.data = <<db.Settings>> /\ db' = db)
      ]_vars

C12_Witness ==
    /\ lastReq.op = "PUT /api/settings"
    /\ lastRes.status = 200
    /\ lastReq.body = [k \in {"investment"} |-> 700000]
    /\ DOMAIN db.Settings = SettingKeys
    /\ db.Settings["projectIdCounter"] = 2


\* C13: a Job that POST /api/records accepts is, in the List that follows,
\* a record whose fields equal the ones submitted: no accepted value is
\* altered or dropped on the way in.
C13_CreateThenListRoundTrip ==
    (lastReq.op = "POST /api/records" /\ lastRes.status = 201)
    => LET listed == GetRecords(db, DefaultPage, DefaultLimit, "desc").res.data
       IN \E k \in 1..Len(listed) :
             /\ listed[k].id = lastRes.data[1].id
             /\ listed[k].body = lastReq.body


\* C14: a POST /api/feedback whose rating is not an integer from 1 to 5 is
\* answered 400 and stores nothing; every stored Feedback has an integer
\* rating from 1 to 5.
C14_RatingBound ==
    [][ /\ (lastReq'.op = "POST /api/feedback"
              /\ ~(lastReq'.body.rating.whole /\ lastReq'.body.rating.n \in 1..5))
           => (lastRes'.status = 400 /\ db'.Feedback = db.Feedback)
        /\ \A d \in db'.Feedback : d.body.rating.whole /\ d.body.rating.n \in 1..5
      ]_vars

C14_Witness ==
    /\ lastReq.op = "POST /api/feedback"
    /\ lastReq.body.rating = Fractional(4)
    /\ lastRes.status = 400
    /\ \E d \in db.Feedback : d.body.rating = Whole(4)


UpdateOps == {"PUT /api/records", "PUT /api/projects"}

Updated(d, op) == IF op = "PUT /api/records" THEN d.Record ELSE d.Project

\* The body passes the validation chain and the schema of its collection.
ValidUpdate(req) ==
    IF req.op = "PUT /api/records" THEN validateRecord(req.body) /\ recordSchema(req.body)
    ELSE validateProject(req.body)

\* C15: an authenticated, valid PUT of a Job or Project by an id that is not
\* in the collection is answered 404 and changes nothing; by an id that is
\* in it, the document then has the fields of the request and an updatedAt
\* of the time of the request, not earlier than before, and no other
\* document changes.
C15_UpdateReplacesOrNotFound ==
    [][ (lastReq'.op \in UpdateOps /\ Credentialed(lastReq') /\ ValidUpdate(lastReq'))
        => IF lastReq'.id \notin Ids(Updated(db, lastReq'.op))
           THEN lastRes'.status = 404 /\ db' = db
           ELSE LET old == CHOOSE d \in Updated(db, lastReq'.op) : d.id = lastReq'.id
                IN /\ lastRes'.status = 200
                   /\ \E d \in Updated(db', lastReq'.op) :
                         /\ d.id = lastReq'.id
                         /\ d.body = lastReq'.body
                         /\ d.createdAt = old.createdAt
                         /\ d.updatedAt = lastReq'.at
                         /\ d.updatedAt >= old.updatedAt
                         /\ Updated(db', lastReq'.op) \ {d} = Updated(db, lastReq'.op) \ {old}
      ]_vars


Failed(call) == call.status \notin 200..299

FailedCall(act, ops) == \E k \in 1..Len(act.calls) : act.calls[k].op \in ops /\ Failed(act.calls[k])

HasId(seq, id) == \E k \in 1..Len(seq) : seq[k].id = id

\* The alerts shown as errors.
ErrorAlerts ==
    {"Failed to delete record", "Failed to delete feedback", "Failed to delete project",
     "Incorrect password!"}

\* C16: when a request of a save or of a delete fails, the change is still
\* made in the in-memory collection and in the local cache; a failed
\* settings write leaves the setting in memory; a load that fails falls
\* back to the cache; and no failure is shown as an error except a failed
\* login, shown as 'Incorrect password!'.
C16_FailuresTakeOfflineFallback ==
    /\ (lastAction.name \in Saves
            /\ FailedCall(lastAction, {"POST /records", "PUT /records", "POST /feedback",
                                       "POST /projects"}))
        => /\ Holds(Mirror(app, lastAction.name), lastAction.entity)
           /\ localStorage.present
           /\ Holds(Mirror(localStorage, lastAction.name), lastAction.entity)
    /\ (lastAction.name = "deleteRecord" /\ FailedCall(lastAction, {"DELETE /records"}))
        => /\ ~HasId(app.records, lastAction.entity.id)
           /\ localStorage.present
           /\ ~HasId(localStorage.records, lastAction.entity.id)
    /\ (lastAction.name = "saveProject" /\ FailedCall(lastAction, {"PUT /settings"}))
        => app.projectUniqueId # lastAction.entity.id
    /\ \A k \in 1..Len(lastAction.alerts) :
          lastAction.alerts[k] \in ErrorAlerts
          => /\ lastAction.alerts[k] = "Incorrect password!"
             /\ FailedCall(lastAction, {"POST /auth/login"})


\* The Job whose PUT or POST a running sweep is waiting for.
InFlight(sy) == IF sy.pc \in {"put", "post"} THEN {Head(sy.queue).id} ELSE {}

\* C17: no two sweeps run at the same time, no two sweeps wait for a save
\* request of the same Job at the same time, and a user save sends no
\* request for a Job while a sweep waits for a save request of that Job.
C17_NoOverlappingSaves ==
    /\ [](~(sync.pc # "idle" /\ overlap.pc # "idle"))
    /\ [](InFlight(sync) \cap InFlight(overlap) = {})
    /\ [][ (lastAction' # lastAction /\ lastAction'.name \in Saves /\ lastAction'.calls # <<>>)
           => lastAction'.entity.id \notin InFlight(sync) \cup InFlight(overlap) ]_vars


\* The call a sweep has just logged.
Pushed(sy) == sy.log[Len(sy.log)]

IsJob(entry) == "projectName" \in DOMAIN entry.body

\* C19: a sweep sends the health probe and PUTs and POSTs of Jobs and
\* nothing else: what it is about to push is a cached Job, and no step of
\* a sweep changes the Feedback or the Projects of the server, however
\* many sweeps run.
C19_SweepPushesOnlyJobs ==
    [][ sync' # sync
        => /\ \A k \in 1..Len(sync'.log) :
                 sync'.log[k].op \in {"GET /health", "PUT /records", "POST /records"}
           /\ \A k \in 1..Len(sync'.queue) : IsJob(sync'.queue[k])
           /\ db'.Feedback = db.Feedback
           /\ db'.Project = db.Project
      ]_vars

C19_Witness ==
    /\ localStorage.present
    /\ localStorage.feedback # <<>>
    /\ localStorage.feedback[1].id >= ClientIdBase
    /\ db.Feedback = {}
    /\ sync.pc = "idle"
    /\ Len(sync.log) >= 3
    /\ Pushed(sync).op = "POST /records"
    /\ Pushed(sync).status = 201


\* C20: every login request adds exactly one entry to the audit log, with
\* success true when the answer carries a token and false when it does not
\* (no password, wrong password, internal error); no login is answered
\* without its entry.
C20_EveryLoginAudited ==
    [][ lastReq'.op = "login"
        => /\ Len(authLog') = Len(authLog) + 1
           /\ authLog'[Len(authLog')].action = "login"
           /\ authLog'[Len(authLog')].success = lastRes'.token.present
           /\ SubSeq(authLog', 1, Len(authLog)) = authLog
      ]_vars


\* What a 500 says when the detail of the exception is withheld.
GenericMessages == {"", "Something went wrong"}

\* C21: with NODE_ENV other than development, the message of every 500
\* response is generic, whichever handler or middleware answered: it does
\* not carry the message of the exception.
C21_No500Detail ==
    (NODE_ENV # "development" /\ lastRes.status = 500)
    => lastRes.message \in GenericMessages


\* C22: the createdAt and updatedAt of a stored Job are the server's: a
\* created Job has both equal to the time of the request whatever the body
\* says, an update sets updatedAt to the time of the request, and over any
\* step the createdAt of a stored Job stays as it was and its updatedAt does
\* not decrease.
C22_ServerAssignedTimestamps ==
    [][ /\ \A d \in db.Record, e \in db'.Record :
              d.id = e.id => (e.createdAt = d.createdAt /\ e.updatedAt >= d.updatedAt)
        /\ (lastReq'.op = "POST /api/records" /\ lastRes'.status = 201)
           => \A e \in db'.Record \ db.Record :
                 e.createdAt = lastReq'.at /\ e.updatedAt = lastReq'.at
        /\ (lastReq'.op = "PUT /api/records" /\ lastRes'.status = 200)
           => \A e \in db'.Record : e.id = lastReq'.id => e.updatedAt = lastReq'.at
      ]_vars


\* The log of a sweep that has just started: the health probe alone.
ProbeAnswered(sy, st) == sy.log = <<Call("GET /health", NoId, st)>>

\* C23: isOnline becomes false only by an offline event or by the failed
\* health probe of a sweep, and true only in the step that starts a sweep
\* whose health probe succeeds (from the timer or an online event); so the
\* step that ends a sweep whose probe succeeded leaves a true flag true.
C23_ConnectivityFlag ==
    [][ /\ (app.isOnline /\ ~app'.isOnline)
           => \/ (sync' = sync /\ db' = db /\ lastAction' = lastAction
                     /\ localStorage' = localStorage)
              \/ (sync.pc = "idle" /\ ProbeAnswered(sync', 0))
        /\ (~app.isOnline /\ app'.isOnline) => (sync.pc = "idle" /\ ProbeAnswered(sync', 200))
        /\ (sync.pc # "idle" /\ sync'.pc = "idle" /\ sync.log[1].status = 200 /\ app.isOnline)
           => app'.isOnline
      ]_vars


LocalIds == { ClientIdBase + t : t \in 0..MaxTime }

\* The server holds a Job with the fields of this body.
StoredOnServer(body) == \E d \in db.Record : d.body = sanitizeRecord(body)

\* C25: with the server answering and the timer firing, a Job that
\* handleOfflineSave put in the local cache is eventually stored on the
\* server (or the clock of the model has run out), whether or not the
\* client holds a valid token.
C25_PendingJobEventuallyStored ==
    \A id \in LocalIds, body \in FormJobBodies :
        [](Holds(localStorage.records, Entry(id, body))
              => <>(StoredOnServer(body) \/ now = MaxTime))


\* C26: a Job that handleOfflineSave put in the local cache is still in the
\* local cache after any step, unless the server holds it.
C26_PendingJobStaysCached ==
    [][ \A id \in LocalIds, body \in CacheJobBodies :
          (Holds(localStorage.records, Entry(id, body)) /\ ~StoredOnServer(body))
          => Holds(localStorage'.records, Entry(id, body))
      ]_vars


\* C27: when the server gets its Jobs from sweeps only, it never holds more
\* Jobs than the local cache: however many sweeps run, a cached Job is
\* created on the server at most once.
C27_SweepsCreateOnce ==
    Cardinality(db.Record) <= Len(localStorage.records)


\* The step takes the answer to a sweep's PUT or POST and the push of that
\* Job has failed: the request failed and no fallback create follows it.
PushFailed ==
    /\ sync.pc \in {"put", "post"}
    /\ Len(sync'.log) = Len(sync.log) + 1
    /\ Failed(Pushed(sync'))
    /\ ~(sync.pc = "put" /\ sync'.pc = "post")

\* C28: when the PUT of a cached Job fails, or its fallback POST fails, the
\* sweep goes on with the next cached Job if there is one, and isOnline
\* stays as it was.
C28_SweepSurvivesFailedPush ==
    [][ PushFailed
        => /\ app'.isOnline = app.isOnline
           /\ Len(sync.queue) > 1
                 => (sync'.pc = "put" /\ sync'.queue = Tail(sync.queue))
      ]_vars


\* C29: projectIdCounter never decreases; after a saveProject the id the
\* form holds for the next Project is a later one than the id just used;
\* and no two Projects of the mirror carry the same id.
C29_ProjectIdsUnique ==
    [][ /\ app'.projectIdCounter >= app.projectIdCounter
        /\ (lastAction' # lastAction /\ lastAction'.name = "saveProject")
           => app'.projectUniqueId > lastAction'.entity.id
        /\ \A j, k \in 1..Len(app'.projects) :
              j # k => app'.projects[j].id # app'.projects[k].id
      ]_vars


\* The ids of the entries a step took out of a collection of the mirror.
RemovedIds(before, after) ==
    { before[k].id : k \in { j \in 1..Len(before) : ~HasId(after, before[j].id) } }

\* C30: when a password-gated deleteFeedback, deleteProject, clearAllRecords
\* or clearAllFeedback has run with the server answering, what it removed
\* from the mirror is not in the server's collection either, so a loadData
\* does not bring it back.
C30_RemovalsReachServer ==
    [][ (lastAction' # lastAction /\ lastAction'.name \in RemoveActions)
        => /\ RemovedIds(app.records, app'.records) \cap Ids(db'.Record) = {}
           /\ RemovedIds(app.feedback, app'.feedback) \cap Ids(db'.Feedback) = {}
           /\ RemovedIds(app.projects, app'.projects) \cap Ids(db'.Project) = {}
           /\ loadData(app', db', localStorage', TRUE).records = app'.records
           /\ loadData(app', db', localStorage', TRUE).feedback = app'.feedback
           /\ loadData(app', db', localStorage', TRUE).projects = app'.projects
      ]_vars

====
